---- MODULE Spec2Model ----
(***************************************************************************)
(* Model of the lastplayed web service: the health handler                 *)
(* (api/app/healthcheck/healthcheck.py) and the latest-song handler        *)
(* (api/app/songs/latest_songs.py).                                        *)
(*                                                                         *)
(* Python values are tagged records: [t |-> "null"], [t |-> "num", n],     *)
(* [t |-> "bool", b], [t |-> "str", s] with s a sequence of one-character  *)
(* strings, [t |-> "arr", a] with a a sequence of values, [t |-> "obj", o] *)
(* with o a function from keys to values.  [t |-> "raise"] stands for a    *)
(* raised exception and [t |-> "invalid"] for a text that is not JSON.     *)
(***************************************************************************)
EXTENDS Integers, Sequences, FiniteSets, TLC

VARIABLES env, pc, user, fmt, api_key, reply, response, calls, sent,
          healthResp, healthLog

vars == <<env, pc, user, fmt, api_key, reply, response, calls, sent,
          healthResp, healthLog>>

(***************************************************************************)
(* Bounds of the model.                                                    *)
(***************************************************************************)
\* number of latest-song requests that can be in flight at the same time
MaxReq == 2
\* number of health-check log lines that are counted
MaxLog == 2

Reqs == 1..MaxReq

(***************************************************************************)
(* Python values.                                                          *)
(***************************************************************************)
PyNone == [t |-> "null"]
PyNum(n) == [t |-> "num", n |-> n]
PyStr(s) == [t |-> "str", s |-> s]
PyList(s) == [t |-> "arr", a |-> s]
PyDict(f) == [t |-> "obj", o |-> f]
PyBool(b) == [t |-> "bool", b |-> b]
Raise == [t |-> "raise"]
NotJson == [t |-> "invalid"]
NoKeys == [k \in {} |-> PyNone]
EmptyDict == PyDict(NoKeys)

IsRaise(x) == x.t = "raise"

\* bool(v)
Truthy(v) ==
  CASE v.t = "null" -> FALSE
    [] v.t = "bool" -> v.b
    [] v.t = "num" -> v.n # 0
    [] v.t = "str" -> Len(v.s) > 0
    [] v.t = "arr" -> Len(v.a) > 0
    [] v.t = "obj" -> DOMAIN v.o # {}
    [] OTHER -> FALSE

\* the characters of the dictionary keys the handler also uses as str operands
KeyChars(k) ==
  CASE k = "track" -> <<"t", "r", "a", "c", "k">>
    [] k = "uts" -> <<"u", "t", "s">>
    [] OTHER -> <<"?">>

\* s occurs in t as a contiguous substring
IsSubstring(s, t) ==
  \E i \in 0..(Len(t) - Len(s)) : SubSeq(t, i + 1, i + Len(s)) = s

\* d[k] in place of d.get(k, dflt): a missing key raises
DictGetNoDefault(d, k, dflt) ==
  IF d.t = "obj" /\ k \in DOMAIN d.o THEN d.o[k] ELSE Raise

\* d.get(k, dflt): AttributeError on anything but a dict
DictGet(d, k, dflt) ==
  IF d.t = "obj"
    THEN IF k \in DOMAIN d.o THEN d.o[k] ELSE dflt
    ELSE Raise

\* k in c: key test on a dict, element test on a list, substring test on a
\* str, TypeError on None and numbers
Contains(k, c) ==
  CASE c.t = "obj" -> PyBool(k \in DOMAIN c.o)
    [] c.t = "arr" ->
         PyBool(\E i \in 1..Len(c.a) : c.a[i] = PyStr(KeyChars(k)))
    [] c.t = "str" -> PyBool(IsSubstring(KeyChars(k), c.s))
    [] OTHER -> Raise

\* c[k] for a str key k: KeyError on a dict without k, TypeError otherwise
GetItem(c, k) ==
  IF c.t = "obj" /\ k \in DOMAIN c.o THEN c.o[k] ELSE Raise

\* c[0]: first element of a list, first character of a str; IndexError when
\* empty, KeyError on a dict (JSON keys are strings), TypeError otherwise
GetFirst(c) ==
  CASE c.t = "arr" /\ Len(c.a) > 0 -> c.a[1]
    [] c.t = "str" /\ Len(c.s) > 0 -> PyStr(<<c.s[1]>>)
    [] OTHER -> Raise

\* d[k] = x on a dict
SetItem(d, k, x) == PyDict((k :> x) @@ d.o)

Digits == {"0", "1", "2", "3", "4", "5", "6", "7", "8", "9"}

DigitVal(c) ==
  CASE c = "0" -> 0 [] c = "1" -> 1 [] c = "2" -> 2 [] c = "3" -> 3
    [] c = "4" -> 4 [] c = "5" -> 5 [] c = "6" -> 6 [] c = "7" -> 7
    [] c = "8" -> 8 [] c = "9" -> 9

RECURSIVE StripLeft(_)
StripLeft(s) ==
  IF Len(s) > 0 /\ Head(s) = " " THEN StripLeft(Tail(s)) ELSE s

RECURSIVE StripRight(_)
StripRight(s) ==
  IF Len(s) > 0 /\ s[Len(s)] = " "
    THEN StripRight(SubSeq(s, 1, Len(s) - 1))
    ELSE s

RECURSIVE DigitsValue(_, _)
DigitsValue(s, acc) ==
  IF s = <<>> THEN acc ELSE DigitsValue(Tail(s), 10 * acc + DigitVal(Head(s)))

\* int(s) for a str: surrounding blanks are stripped, an optional sign, then
\* decimal digits; anything else is a ValueError
ParseInt(s) ==
  LET w == StripRight(StripLeft(s))
      neg == Len(w) > 0 /\ Head(w) = "-"
      signed == Len(w) > 0 /\ Head(w) \in {"-", "+"}
      d == IF signed THEN Tail(w) ELSE w
  IN IF Len(d) > 0 /\ \A i \in 1..Len(d) : d[i] \in Digits
       THEN PyNum(IF neg THEN 0 - DigitsValue(d, 0) ELSE DigitsValue(d, 0))
       ELSE Raise

\* int(v): numbers convert to themselves, str is parsed, TypeError otherwise
PyInt(v) ==
  CASE v.t = "num" -> v
    [] v.t = "str" -> ParseInt(v.s)
    [] OTHER -> Raise

(***************************************************************************)
(* Literals of the source.                                                 *)
(***************************************************************************)
BASE_URL ==
  <<"h", "t", "t", "p", "s", ":", "/", "/", "w", "s", ".", "a", "u", "d",
    "i", "o", "s", "c", "r", "o", "b", "b", "l", "e", "r", ".", "c", "o",
    "m", "/", "2", ".", "0", "/">>

RECENT_TRACKS_PARAMS ==
  <<"m", "e", "t", "h", "o", "d", "=", "u", "s", "e", "r", ".", "g", "e",
    "t", "r", "e", "c", "e", "n", "t", "t", "r", "a", "c", "k", "s", "&",
    "l", "i", "m", "i", "t", "=", "1", "&", "f", "o", "r", "m", "a", "t",
    "=", "j", "s", "o", "n">>

TIMEOUT == 10

INTERNAL_ERROR ==
  <<"I", "N", "T", "E", "R", "N", "A", "L", "_", "E", "R", "R", "O", "R">>

NO_TRACKS_FOUND ==
  <<"N", "O", "_", "T", "R", "A", "C", "K", "S", "_", "F", "O", "U", "N",
    "D">>

BadgeLabel ==
  <<"L", "a", "s", "t", ".", "F", "M", " ", "L", "a", "s", "t", " ", "P",
    "l", "a", "y", "e", "d", " ", "S", "o", "n", "g">>

ShieldsIo == <<"s", "h", "i", "e", "l", "d", "s", ".", "i", "o">>

HealthMessage == <<"t", "y", "p", "e", " ", "s", "h", "i", "t">>

\* jsonify({"message": text})
MessageBody(text) == PyDict("message" :> PyStr(text))

\* a handler's return value (body, status) and what is kept of it
Return(status, body) == [t |-> "return", status |-> status, body |-> body]
Response(ret) == [status |-> ret.status, body |-> ret.body]
NoResponse == [status |-> 0, body |-> PyNone]

\* "{v}" in an f-string, for the values that occur as name and #text
Format(v) ==
  CASE v.t = "str" -> v.s
    [] v.t = "null" -> <<"N", "o", "n", "e">>

(***************************************************************************)
(* Inputs: the process environment, the requests and the upstream's        *)
(* replies.                                                                *)
(***************************************************************************)
\* os.environ.get('LASTFM_API_KEY'): unset, set to the empty string, set
EnvKeys == {PyNone, PyStr(<<>>), PyStr(<<"k", "1">>)}

\* the <user> path segment, as Flask hands it to the handler (URL-decoded)
Users ==
  { <<"r", "j">>,
    <<"r", "j", "&", "l", "i", "m", "i", "t", "=", "2">>,
    <<"r", "j", "#">> }

\* request.args.get('format')
Formats == {PyNone, PyStr(ShieldsIo), PyStr(<<"j", "s", "o", "n">>)}

\* query arguments of a health request (the handler reads none of them)
HealthInputs == {PyNone, PyStr(ShieldsIo)}

Song == PyStr(<<"S", "o", "n", "g">>)
Band == PyDict("#text" :> PyStr(<<"B", "a", "n", "d">>))
Other == PyDict(("name" :> PyStr(<<"O", "l", "d">>)) @@ ("artist" :> Band))

\* values of date.uts
UtsValues ==
  { PyNone, PyStr(<<>>), PyStr(<<"0">>), PyStr(<<"1", "7">>),
    PyStr(<<"1", "7", "0", "0", "0", "0", "0", "0", "0", "0">>),
    PyStr(<<" ", "1", "7">>), PyStr(<<"1", "x">>), PyNum(0), PyNum(17) }

\* values of track.date
DateValues ==
  { PyNone, PyStr(<<"n", "o", "w">>), EmptyDict }
    \cup { PyDict("uts" :> u) : u \in UtsValues }

\* a dict with the key k bound to one of vals, or without the key
Optional(k, vals) == {NoKeys} \cup { k :> x : x \in vals }

\* track objects: every date with a complete name and artist, and every
\* name/artist shape without a date
Tracks ==
  { PyDict(("name" :> Song) @@ ("artist" :> Band) @@ d) :
      d \in Optional("date", DateValues) }
    \cup
  { PyDict(n @@ a) :
      n \in Optional("name", {Song}),
      a \in Optional("artist", {PyStr(<<"B">>), EmptyDict, Band}) }

\* values of recenttracks.track
TrackLists ==
  { PyNone, PyStr(<<>>), PyStr(<<"x">>), PyList(<<>>), PyList(<<PyNone>>),
    PyList(<<PyStr(<<"x">>)>>), Other }
    \cup { PyList(<<tr>>) : tr \in Tracks }
    \cup { PyList(<<tr, Other>>) : tr \in {Other, PyDict("name" :> Song)} }

\* values of recenttracks
RecentTracks ==
  { PyNone, PyNum(5), PyStr(<<"t", "r", "a", "c", "k", "s">>),
    PyStr(<<"n", "o">>), PyList(<<>>), EmptyDict }
    \cup { PyDict("track" :> l) : l \in TrackLists }

\* the upstream's error payload, e.g. for an unknown user
ErrorPayload ==
  PyDict(("error" :> PyNum(6)) @@ ("message" :> PyStr(<<"n", "o">>)))

\* response texts: not JSON, JSON that is no object, JSON objects
Bodies ==
  { NotJson, PyList(<<>>), PyNone, ErrorPayload }
    \cup { PyDict("recenttracks" :> rt) : rt \in RecentTracks }

\* bodies the upstream is also seen to send with a status other than 200
ErrorBodies ==
  { NotJson, ErrorPayload,
    PyDict("recenttracks" :> PyDict("track" :> PyList(<<>>))),
    PyDict("recenttracks" :> PyDict("track" :> PyList(<<Other>>))) }

HttpReply(status, body) == [kind |-> "http", status |-> status, json |-> body]
Failure(kind) == [kind |-> kind, status |-> 0, json |-> PyNone]
NoReply == Failure("none")

\* outcomes of requests.get: an exception (connection error, timeout) or an
\* HTTP response
Replies ==
  { Failure("connection_error"), Failure("timeout") }
    \cup { HttpReply(200, b) : b \in Bodies }
    \cup { HttpReply(404, b) : b \in ErrorBodies }

(***************************************************************************)
(* The latest-song handler, latest_songs.route.                            *)
(***************************************************************************)
\* api_key is None in place of not api_key: the empty key passes
KeyMissingNoneOnly(key) == key.t = "null"

\* not api_key
KeyMissing(key) == ~Truthy(key)

\* f"{BASE_URL}?{RECENT_TRACKS_PARAMS}&user={user}&api_key={api_key}"
RequestUrl(u, key) ==
  BASE_URL \o <<"?">> \o RECENT_TRACKS_PARAMS
    \o <<"&", "u", "s", "e", "r", "=">> \o u
    \o <<"&", "a", "p", "i", "_", "k", "e", "y", "=">> \o Format(key)

\* the arguments of requests.get
OutboundCall(u, key) == [url |-> RequestUrl(u, key), timeout |-> TIMEOUT]

\* requests.get raised instead of returning a response
GetRaised(rep) == rep.kind # "http"

\* req.json()
ReqJson(rep) == IF rep.json.t = "invalid" THEN Raise ELSE rep.json

\* int(track_date) if track_date else None
DateUts(track_date) ==
  IF Truthy(track_date) THEN PyInt(track_date) ELSE PyNone

\* the flag compared with a misspelt literal
WantsBadgeTypo(format) == format = PyStr(<<"s", "h", "i", "e", "l", "d", "s">>)

\* request.args.get('format') == 'shields.io'
WantsBadge(format) == format = PyStr(ShieldsIo)

\* the shields.io badge of a track, or the exception of a missing field
Badge(track) ==
  LET name == GetItem(track, "name")
      artist == GetItem(track, "artist")
      text == IF IsRaise(artist) THEN Raise ELSE GetItem(artist, "#text")
  IN IF IsRaise(name) \/ IsRaise(text)
       THEN Raise
       ELSE Return(200,
              PyDict(("schemaVersion" :> PyNum(1))
                       @@ ("label" :> PyStr(BadgeLabel))
                       @@ ("message" :>
                             PyStr(Format(name) \o <<" ", "-", " ">>
                                     \o Format(text)))))

\* a fixed 200 in place of req.status_code
TrackStatusFixed(status) == 200

\* req.status_code, the status of the {"track": ...} response
TrackStatus(status) == status

\* the statements after the emptiness test: the first track, its date_uts
\* and the two renderings
RenderTrack(tracks, format, status) ==
  LET track == GetFirst(tracks)
      date == IF IsRaise(track) THEN Raise
              ELSE DictGet(track, "date", EmptyDict)
      track_date == IF IsRaise(date) THEN Raise
                    ELSE DictGet(date, "uts", PyNone)
      date_uts == IF IsRaise(track_date) THEN Raise ELSE DateUts(track_date)
  IN IF IsRaise(date_uts)
       THEN Raise
       ELSE LET normalized == SetItem(track, "date_uts", date_uts)
            IN IF WantsBadge(format)
                 THEN Badge(normalized)
                 ELSE Return(TrackStatus(status),
                             PyDict("track" :> normalized))

\* the body of the try statement after requests.get returned: a Return or
\* Raise
TryBody(rep, format) ==
  LET lastfm_response == ReqJson(rep)
      recent_tracks == IF IsRaise(lastfm_response) THEN Raise
                       ELSE DictGet(lastfm_response, "recenttracks", EmptyDict)
      hasTrack == IF IsRaise(recent_tracks) THEN Raise
                  ELSE Contains("track", recent_tracks)
  IN IF IsRaise(hasTrack) THEN Raise
     ELSE IF ~hasTrack.b THEN Return(200, MessageBody(NO_TRACKS_FOUND))
     ELSE LET tracks == GetItem(recent_tracks, "track")
          IN IF IsRaise(tracks) THEN Raise
             ELSE IF ~Truthy(tracks)
               THEN Return(200, MessageBody(NO_TRACKS_FOUND))
               ELSE RenderTrack(tracks, format, rep.status)

\* an except clause that answers without the JSON error body
CaughtUnformatted(result) ==
  IF IsRaise(result) THEN Return(500, PyNone) ELSE result

\* except Exception: every exception becomes the INTERNAL_ERROR response
Caught(result) ==
  IF IsRaise(result) THEN Return(500, MessageBody(INTERNAL_ERROR)) ELSE result

\* a request arrives at a free slot: Flask calls route(user)
Receive(r) ==
  /\ pc[r] \in {"idle", "responding"}
  /\ \E u \in Users, f \in Formats :
       /\ user' = [user EXCEPT ![r] = u]
       /\ fmt' = [fmt EXCEPT ![r] = f]
  /\ pc' = [pc EXCEPT ![r] = "checking-config"]
  /\ api_key' = [api_key EXCEPT ![r] = PyNone]
  /\ reply' = [reply EXCEPT ![r] = NoReply]
  /\ response' = [response EXCEPT ![r] = NoResponse]
  /\ calls' = [calls EXCEPT ![r] = <<>>]
  /\ sent' = [sent EXCEPT ![r] = 0]
  /\ UNCHANGED <<env, healthResp, healthLog>>

\* api_key = os.environ.get(...); if not api_key: return INTERNAL_ERROR, 500
CheckConfig(r) ==
  /\ pc[r] = "checking-config"
  /\ api_key' = [api_key EXCEPT ![r] = env]
  /\ IF KeyMissing(env)
       THEN /\ response' = [response EXCEPT ![r] =
                 Response(Return(500, MessageBody(INTERNAL_ERROR)))]
            /\ sent' = [sent EXCEPT ![r] = @ + 1]
            /\ pc' = [pc EXCEPT ![r] = "responding"]
       ELSE /\ pc' = [pc EXCEPT ![r] = "calling-upstream"]
            /\ UNCHANGED <<response, sent>>
  /\ UNCHANGED <<env, user, fmt, reply, calls, healthResp, healthLog>>

\* a handler that calls again after a failed call
CallUpstreamRetry(r) ==
  /\ pc[r] = "calling-upstream"
  /\ calls' = [calls EXCEPT ![r] = Append(@, OutboundCall(user[r], api_key[r]))]
  /\ \E rep \in Replies :
       /\ reply' = [reply EXCEPT ![r] = rep]
       /\ pc' = [pc EXCEPT ![r] =
            IF GetRaised(rep) THEN "calling-upstream"
            ELSE "interpreting-response"]
  /\ UNCHANGED <<env, user, fmt, api_key, response, sent, healthResp,
                 healthLog>>

\* req = requests.get(url, timeout=TIMEOUT): the call is made and either
\* raises, which the except clause turns into the response, or returns
CallUpstream(r) ==
  /\ pc[r] = "calling-upstream"
  /\ calls' = [calls EXCEPT ![r] = Append(@, OutboundCall(user[r], api_key[r]))]
  /\ \E rep \in Replies :
       /\ reply' = [reply EXCEPT ![r] = rep]
       /\ IF GetRaised(rep)
            THEN /\ response' = [response EXCEPT ![r] = Response(Caught(Raise))]
                 /\ sent' = [sent EXCEPT ![r] = @ + 1]
                 /\ pc' = [pc EXCEPT ![r] = "responding"]
            ELSE /\ pc' = [pc EXCEPT ![r] = "interpreting-response"]
                 /\ UNCHANGED <<response, sent>>
  /\ UNCHANGED <<env, user, fmt, api_key, healthResp, healthLog>>

\* a handler that keeps the format flag in one process-wide place (the
\* first slot's) instead of reading its own request's
InterpretShared(r) ==
  /\ pc[r] = "interpreting-response"
  /\ response' = [response EXCEPT ![r] =
       Response(Caught(TryBody(reply[r], fmt[1])))]
  /\ sent' = [sent EXCEPT ![r] = @ + 1]
  /\ pc' = [pc EXCEPT ![r] = "responding"]
  /\ UNCHANGED <<env, user, fmt, api_key, reply, calls, healthResp, healthLog>>

\* lines 18 to 38: the response is parsed, rendered and returned
Interpret(r) ==
  /\ pc[r] = "interpreting-response"
  /\ response' = [response EXCEPT ![r] =
       Response(Caught(TryBody(reply[r], fmt[r])))]
  /\ sent' = [sent EXCEPT ![r] = @ + 1]
  /\ pc' = [pc EXCEPT ![r] = "responding"]
  /\ UNCHANGED <<env, user, fmt, api_key, reply, calls, healthResp, healthLog>>

(***************************************************************************)
(* The health handler, healthcheck.route.                                  *)
(***************************************************************************)
\* a health handler that rejects requests carrying query arguments
HealthResponseByInput(input) ==
  IF input = PyNone
    THEN Response(Return(200, MessageBody(HealthMessage)))
    ELSE Response(Return(400, MessageBody(INTERNAL_ERROR)))

\* jsonify({"message": "type shit"}), with Flask's default status
HealthResponse(input) == Response(Return(200, MessageBody(HealthMessage)))

\* log.info(...) and the fixed payload; the log lines are counted up to
\* MaxLog
Health ==
  /\ \E input \in HealthInputs : healthResp' = HealthResponse(input)
  /\ healthLog' = IF healthLog < MaxLog THEN healthLog + 1 ELSE healthLog
  /\ UNCHANGED <<env, pc, user, fmt, api_key, reply, response, calls, sent>>

(***************************************************************************)
(* Specifications.                                                         *)
(***************************************************************************)
Init ==
  /\ env \in EnvKeys
  /\ pc = [r \in Reqs |-> "idle"]
  /\ user = [r \in Reqs |-> <<>>]
  /\ fmt = [r \in Reqs |-> PyNone]
  /\ api_key = [r \in Reqs |-> PyNone]
  /\ reply = [r \in Reqs |-> NoReply]
  /\ response = [r \in Reqs |-> NoResponse]
  /\ calls = [r \in Reqs |-> <<>>]
  /\ sent = [r \in Reqs |-> 0]
  /\ healthResp = NoResponse
  /\ healthLog = 0

\* one latest-song request at a time, and health checks at any moment
Next ==
  \/ Receive(1)
  \/ CheckConfig(1)
  \/ CallUpstream(1)
  \/ Interpret(1)
  \/ Health

Spec == Init /\ [][Next]_vars

\* up to MaxReq latest-song requests handled side by side
NextConcurrent ==
  \E r \in Reqs :
    \/ Receive(r)
    \/ CheckConfig(r)
    \/ CallUpstream(r)
    \/ Interpret(r)

SpecConcurrent == Init /\ [][NextConcurrent]_vars

(***************************************************************************)
(* Vocabulary of the properties.                                           *)
(***************************************************************************)
InternalErrorResponse ==
  [status |-> 500, body |-> PyDict("message" :> PyStr(INTERNAL_ERROR))]

NoTracksResponse ==
  [status |-> 200, body |-> PyDict("message" :> PyStr(NO_TRACKS_FOUND))]

Responded(r) == pc[r] = "responding"

KeyPresent == env.t = "str" /\ Len(env.s) > 0

\* the reply is an HTTP response whose text parses as a JSON object
JsonObjectReply(rep) == rep.kind = "http" /\ rep.json.t = "obj"

\* recenttracks.track of a JSON object reply is absent or an empty sequence
TrackListMissing(rep) ==
  \/ "recenttracks" \notin DOMAIN rep.json.o
  \/ /\ rep.json.o["recenttracks"].t = "obj"
     /\ \/ "track" \notin DOMAIN rep.json.o["recenttracks"].o
        \/ rep.json.o["recenttracks"].o["track"] = PyList(<<>>)

\* recenttracks.track of a JSON object reply is a non-empty sequence
HasTrackList(rep) ==
  /\ JsonObjectReply(rep)
  /\ "recenttracks" \in DOMAIN rep.json.o
  /\ rep.json.o["recenttracks"].t = "obj"
  /\ "track" \in DOMAIN rep.json.o["recenttracks"].o
  /\ rep.json.o["recenttracks"].o["track"].t = "arr"
  /\ Len(rep.json.o["recenttracks"].o["track"].a) > 0

FirstTrack(rep) == rep.json.o["recenttracks"].o["track"].a[1]

\* u is an integer or a str holding a decimal integer
IntegerValued(u) ==
  \/ u.t = "num"
  \/ /\ u.t = "str"
     /\ LET w == StripRight(StripLeft(u.s))
        IN Len(w) > 0 /\ \A i \in 1..Len(w) : w[i] \in Digits

\* the integer u stands for
IntegerOf(u) ==
  IF u.t = "num" THEN u.n ELSE DigitsValue(StripRight(StripLeft(u.s)), 0)

HasUts(tr) ==
  /\ tr.t = "obj"
  /\ "date" \in DOMAIN tr.o
  /\ tr.o["date"].t = "obj"
  /\ "uts" \in DOMAIN tr.o["date"].o

\* the track is an object whose date, when there is one, is an object whose
\* uts, when there is one, is null, empty, zero or integer valued
DateReadable(tr) ==
  /\ tr.t = "obj"
  /\ "date" \in DOMAIN tr.o =>
       /\ tr.o["date"].t = "obj"
       /\ "uts" \in DOMAIN tr.o["date"].o =>
            LET u == tr.o["date"].o["uts"]
            IN u \in {PyNone, PyStr(<<>>)} \/ IntegerValued(u)

\* the track has the two fields the badge is built from
HasNameAndArtist(tr) ==
  /\ tr.t = "obj"
  /\ "name" \in DOMAIN tr.o
  /\ tr.o["name"].t = "str"
  /\ "artist" \in DOMAIN tr.o
  /\ tr.o["artist"].t = "obj"
  /\ "#text" \in DOMAIN tr.o["artist"].o
  /\ tr.o["artist"].o["#text"].t = "str"

\* the failures of the upstream call: the transport fails, the text is not
\* JSON, or the JSON has a shape the traversal of recenttracks.track[0],
\* of date.uts and (for a badge) of name and artist.#text breaks on
TransportFailure(rep) == rep.kind \in {"connection_error", "timeout"}

MalformedResponse(rep) == rep.kind = "http" /\ rep.json.t = "invalid"

BrokenTrack(tr, format) ==
  \/ ~DateReadable(tr)
  \/ format = PyStr(ShieldsIo) /\ ~HasNameAndArtist(tr)

BrokenTrackList(tl, format) ==
  /\ Truthy(tl)
  /\ \/ tl.t # "arr"
     \/ tl.t = "arr" /\ BrokenTrack(tl.a[1], format)

BrokenRecentTracks(rt, format) ==
  \/ rt.t \in {"null", "num"}
  \/ rt.t = "str" /\ IsSubstring(<<"t", "r", "a", "c", "k">>, rt.s)
  \/ /\ rt.t = "arr"
     /\ \E i \in 1..Len(rt.a) : rt.a[i] = PyStr(<<"t", "r", "a", "c", "k">>)
  \/ /\ rt.t = "obj"
     /\ "track" \in DOMAIN rt.o
     /\ BrokenTrackList(rt.o["track"], format)

UnexpectedShape(rep, format) ==
  /\ rep.kind = "http"
  /\ rep.json.t # "invalid"
  /\ \/ rep.json.t # "obj"
     \/ /\ rep.json.t = "obj"
        /\ "recenttracks" \in DOMAIN rep.json.o
        /\ BrokenRecentTracks(rep.json.o["recenttracks"], format)

UpstreamFailure(rep, format) ==
  TransportFailure(rep) \/ MalformedResponse(rep) \/ UnexpectedShape(rep, format)

(***************************************************************************)
(* C1.  Missing API key.                                                   *)
(***************************************************************************)
\* C1: while the API key is absent or empty, no latest-song request makes an
\* outbound call, and every such request that has responded, whatever its
\* username and format flag, responded 500 {"message": "INTERNAL_ERROR"}.
C1_MissingKeyIsInternalError ==
  ~KeyPresent =>
    \A r \in Reqs :
      /\ calls[r] = <<>>
      /\ reply[r] = NoReply
      /\ Responded(r) => response[r] = InternalErrorResponse

C1_Witness ==
  /\ env = PyStr(<<>>)
  /\ Responded(1)
  /\ fmt[1] = PyStr(ShieldsIo)
  /\ response[1].status = 500

C3_NoTracksFound ==
  \A r \in Reqs :
    ( /\ KeyPresent
      /\ Responded(r)
      /\ JsonObjectReply(reply[r])
      /\ TrackListMissing(reply[r]) )
      => response[r] = NoTracksResponse

C3_Witness ==
  /\ KeyPresent
  /\ Responded(1)
  /\ reply[1] = HttpReply(404, ErrorPayload)
  /\ fmt[1] = PyStr(ShieldsIo)
  /\ response[1] = NoTracksResponse

(***************************************************************************)
(* C4.  The shields.io badge.                                              *)
(***************************************************************************)
\* the badge the claim describes, for a track name and an artist text
ExpectedBadge(name, text) ==
  PyDict([schemaVersion |-> PyNum(1),
          label |-> PyStr(BadgeLabel),
          message |-> PyStr(name \o <<" ", "-", " ">> \o text)])

\* C4: with the API key present, a non-empty track list whose first track has
\* a name, an artist text and a readable date, and format = shields.io, the
\* request responded 200, whatever the upstream's status code, with exactly
\* the badge of the first track; the body has no track member, and the track
\* Song by Band gives the message "Song - Band".
C4_Badge ==
  \A r \in Reqs :
    ( /\ KeyPresent
      /\ Responded(r)
      /\ HasTrackList(reply[r])
      /\ HasNameAndArtist(FirstTrack(reply[r]))
      /\ DateReadable(FirstTrack(reply[r]))
      /\ fmt[r] = PyStr(ShieldsIo) )
      => LET tr == FirstTrack(reply[r])
         IN /\ response[r].status = 200
            /\ response[r].body =
                 ExpectedBadge(tr.o["name"].s, tr.o["artist"].o["#text"].s)
            /\ "track" \notin DOMAIN response[r].body.o
            /\ (tr.o["name"] = Song /\ tr.o["artist"] = Band) =>
                 response[r].body.o["message"] =
                   PyStr(<<"S", "o", "n", "g", " ", "-", " ",
                           "B", "a", "n", "d">>)

C4_Witness ==
  /\ KeyPresent
  /\ Responded(1)
  /\ fmt[1] = PyStr(ShieldsIo)
  /\ reply[1] =
       HttpReply(404,
         PyDict("recenttracks" :> PyDict("track" :> PyList(<<Other>>))))
  /\ response[1].status = 200
  /\ "schemaVersion" \in DOMAIN response[1].body.o

(***************************************************************************)
(* C5.  date_uts.                                                          *)
(***************************************************************************)
\* the response carries a {"track": ...} body
TrackBody(r) ==
  /\ Responded(r)
  /\ response[r].body.t = "obj"
  /\ "track" \in DOMAIN response[r].body.o

\* C5: in every {"track": ...} response, date_uts is the integer value of the
\* first track's date.uts whenever the track has a date with an integer
\* valued uts, null whenever the track has no date or the date no uts, and
\* in every case an integer or null.
C5_DateUts ==
  \A r \in Reqs :
    TrackBody(r) =>
      LET tr == FirstTrack(reply[r])
          out == response[r].body.o["track"].o["date_uts"]
      IN /\ out.t \in {"num", "null"}
         /\ (HasUts(tr) /\ IntegerValued(tr.o["date"].o["uts"]))
              => out = PyNum(IntegerOf(tr.o["date"].o["uts"]))
         /\ ~HasUts(tr) => out = PyNone

(***************************************************************************)
(* C6.  The track response and the status codes.                           *)
(***************************************************************************)
\* C6: with the API key present, a non-empty track list whose first track is
\* an object with a readable date, and a format flag that is absent or not
\* shields.io, the request responded with the upstream's status code and the
\* body {"track": first track plus date_uts}; a NO_TRACKS_FOUND or badge
\* response always has status 200.
C6_TrackResponse ==
  \A r \in Reqs :
    /\ ( /\ KeyPresent
         /\ Responded(r)
         /\ HasTrackList(reply[r])
         /\ DateReadable(FirstTrack(reply[r]))
         /\ fmt[r] # PyStr(ShieldsIo) )
         => LET tr == FirstTrack(reply[r])
            IN /\ response[r].status = reply[r].status
               /\ DOMAIN response[r].body.o = {"track"}
               /\ response[r].body.o["track"].t = "obj"
               /\ DOMAIN response[r].body.o["track"].o =
                    DOMAIN tr.o \cup {"date_uts"}
               /\ \A k \in DOMAIN tr.o :
                    response[r].body.o["track"].o[k] = tr.o[k]
    /\ ( /\ Responded(r)
         /\ \/ response[r].body = NoTracksResponse.body
            \/ "schemaVersion" \in DOMAIN response[r].body.o )
         => response[r].status = 200

C6_Witness ==
  /\ KeyPresent
  /\ Responded(1)
  /\ fmt[1] = PyStr(<<"j", "s", "o", "n">>)
  /\ reply[1].status = 404
  /\ HasTrackList(reply[1])
  /\ response[1].status = 404
  /\ "track" \in DOMAIN response[1].body.o

(***************************************************************************)
(* C7.  The health handler.                                                *)
(***************************************************************************)
HealthOk ==
  [status |-> 200, body |-> PyDict("message" :> PyStr(HealthMessage))]

\* C7: every health response is 200 with the one fixed body
\* {"message": <status string>}, whatever the request's input, the API key
\* configuration and the latest-song requests handled before it.
C7_HealthFixed ==
  /\ healthResp \in {NoResponse, HealthOk}
  /\ healthLog > 0 <=> healthResp = HealthOk

C7_Witness ==
  /\ healthResp = HealthOk
  /\ healthLog = MaxLog
  /\ ~KeyPresent
  /\ Responded(1)
  /\ response[1] = InternalErrorResponse

(***************************************************************************)
(* C8.  The handler's states.                                              *)
(***************************************************************************)
\* the steps a request can take
Transitions ==
  { <<"idle", "checking-config">>,
    <<"responding", "checking-config">>,
    <<"checking-config", "calling-upstream">>,
    <<"checking-config", "responding">>,
    <<"calling-upstream", "interpreting-response">>,
    <<"calling-upstream", "responding">>,
    <<"interpreting-response", "responding">> }

\* a JSON object with a status code
WellFormed(resp) == resp.status \in {200, 404, 500} /\ resp.body.t = "obj"

C8_State(r) ==
  /\ Len(calls[r]) <= 1
  /\ calls[r] # <<>> =>
       /\ Truthy(api_key[r])
       /\ pc[r] \in {"interpreting-response", "responding"}
  /\ pc[r] = "interpreting-response" => calls[r] # <<>>
  /\ sent[r] = (IF Responded(r) THEN 1 ELSE 0)
  /\ Responded(r) => WellFormed(response[r])

C8_Step(r) ==
  pc'[r] # pc[r] =>
    /\ <<pc[r], pc'[r]>> \in Transitions
    /\ Len(calls'[r]) = Len(calls[r]) + 1
         <=> (pc[r] = "calling-upstream")
    /\ ( /\ pc'[r] = "responding"
         /\ pc[r] \in {"checking-config", "calling-upstream"} )
         => response'[r] = InternalErrorResponse
    /\ ( /\ pc'[r] = "responding"
         /\ pc[r] = "interpreting-response"
         /\ IsRaise(TryBody(reply[r], fmt[r])) )
         => response'[r] = InternalErrorResponse

\* C8: every request moves checking-config, calling-upstream,
\* interpreting-response, responding in that order; the outbound call is made
\* at most once, only with a key that passed the check, and never again after
\* a failure; a failure in any state leads directly to the INTERNAL_ERROR
\* response; and a request that ended has sent exactly one JSON response.
C8_LinearStates ==
  /\ [](\A r \in Reqs : C8_State(r))
  /\ [][\A r \in Reqs : C8_Step(r)]_vars

C8_Witness ==
  /\ Responded(1)
  /\ reply[1].kind = "timeout"
  /\ Len(calls[1]) = 1
  /\ sent[1] = 1
  /\ response[1] = InternalErrorResponse

(***************************************************************************)
(* C9.  The outbound request.                                              *)
(***************************************************************************)
\* position of the first c in s, 0 when there is none
FirstIndex(s, c) ==
  IF \E i \in 1..Len(s) : s[i] = c
    THEN CHOOSE i \in 1..Len(s) : s[i] = c /\ \A j \in 1..(i - 1) : s[j] # c
    ELSE 0

Before(s, c) ==
  IF FirstIndex(s, c) = 0 THEN s ELSE SubSeq(s, 1, FirstIndex(s, c) - 1)

After(s, c) ==
  IF FirstIndex(s, c) = 0 THEN <<>> ELSE SubSeq(s, FirstIndex(s, c) + 1, Len(s))

RECURSIVE Split(_, _)
Split(s, c) ==
  IF FirstIndex(s, c) = 0 THEN <<s>>
  ELSE <<Before(s, c)>> \o Split(After(s, c), c)

\* the query the upstream receives for a URL: what follows the first "?" of
\* the part before the fragment, as a sequence of <<name, value>> pairs
QueryParams(url) ==
  LET parts == Split(After(Before(url, "#"), "?"), "&")
  IN [i \in 1..Len(parts) |-> <<Before(parts[i], "=") , After(parts[i], "=")>>]

\* the query the claim describes for a username and a key
ExpectedQuery(u, key) ==
  << << <<"m", "e", "t", "h", "o", "d">>,
        <<"u", "s", "e", "r", ".", "g", "e", "t", "r", "e", "c", "e", "n",
          "t", "t", "r", "a", "c", "k", "s">> >>,
     << <<"l", "i", "m", "i", "t">>, <<"1">> >>,
     << <<"f", "o", "r", "m", "a", "t">>, <<"j", "s", "o", "n">> >>,
     << <<"u", "s", "e", "r">>, u >>,
     << <<"a", "p", "i", "_", "k", "e", "y">>, key >> >>

\* C9: every outbound request asks the recent-tracks method for one track in
\* JSON for exactly the username of the path and with the configured key:
\* its query is method, limit=1, format=json, user=<username>, api_key=<key>
\* and nothing else, for every username.
C9_OutboundQuery ==
  \A r \in Reqs :
    \A i \in 1..Len(calls[r]) :
      QueryParams(calls[r][i].url) = ExpectedQuery(user[r], env.s)

(***************************************************************************)
(* C10.  Isolation of requests.                                            *)
(***************************************************************************)
SameInputs(r1, r2) ==
  /\ user[r1] = user[r2]
  /\ fmt[r1] = fmt[r2]
  /\ api_key[r1] = api_key[r2]
  /\ reply[r1] = reply[r2]

\* C10: two requests that have responded and had the same username, format
\* flag, API key and upstream reply have the same status and body, whatever
\* was handled before them or side by side with them.
C10_Isolation ==
  \A r1 \in Reqs, r2 \in Reqs :
    (Responded(r1) /\ Responded(r2) /\ SameInputs(r1, r2))
      => response[r1] = response[r2]

C10_Witness ==
  /\ Responded(1)
  /\ Responded(2)
  /\ SameInputs(1, 2)
  /\ reply[1].kind = "http"
  /\ "track" \in DOMAIN response[1].body.o
  /\ response[2].status = 404

====
